---- MODULE Spec2Model ----
(***************************************************************************)
(* Model of src/lib/simulation.js: the Simulator class, its seeded random  *)
(* generator and RunSimulation.                                            *)
(*                                                                         *)
(* Representation.                                                         *)
(*  - A JavaScript string is a sequence of one-character strings, so that  *)
(*    split, at and join can be computed character by character.          *)
(*  - A real number (kill ratio, draw, threshold) is an integer count of   *)
(*    1/100000: 0.8 is 80000, the draw 79.54053 is 7954053.                 *)
(***************************************************************************)
EXTENDS Integers, Sequences, FiniteSets, TLC

\* ------------------------------------------------------------------ bounds

\* Longest radarData text handed to Run, in characters.
MaxLen == 3
\* Most datagrams in a time step handed to SimulateTimeStep directly.
MaxDatagrams == 2
\* Most method calls made on one Simulator instance after its construction.
MaxCalls == 2
\* Longest radarData text in the two-instance specification.
MaxLenPair == 2

\* ------------------------------------------------------- program constants

\* constructor({ pkRatio = 0.8, ... })
DefaultPkRatio == 80000
\* constructor({ ..., randomSeed = 1000, ... })
DefaultRandomSeed == 1000

\* ------------------------------------------------------------ input ranges

Instances == {1, 2}

\* The characters of an input text: a '1', another digit, the datagram
\* separator and the line separator.
Alphabet == {"0", "1", ";", "\n"}

SeqsUpTo(S, n) == UNION {[1..k -> S] : k \in 0..n}

Texts == SeqsUpTo(Alphabet, MaxLen)
PairTexts == SeqsUpTo(Alphabet, MaxLenPair)

\* Datagrams handed to SimulateTimeStep and TranslateDatagram directly:
\* "", "10" and "01".
Datagrams == {<< >>, <<"1", "0">>, <<"0", "1">>}
TimeSteps == SeqsUpTo(Datagrams, MaxDatagrams)

\* Kill ratios: 0 and the default 0.8.
PkRatios == {0, DefaultPkRatio}
\* Seeds: 0 and the default 1000.
Seeds == {0, DefaultRandomSeed}
\* Injected uniformRand functions: () => 80 and () => 12.125.
StubDraws == {8000000, 1212500}

\* The value a JavaScript expression has when there is nothing there.
Undefined == "undefined"

\* options.uniformRand: absent, or a function returning a fixed value.
NoRand == [given |-> FALSE, value |-> 0]
StubRand(v) == [given |-> TRUE, value |-> v]

\* The options objects handed to the constructor: a seed with the default
\* ratio, seed 0 with either ratio, or the defaults with an injected function.
Options ==
    {[pkRatio |-> DefaultPkRatio, randomSeed |-> s, uniformRand |-> NoRand] : s \in Seeds}
    \cup {[pkRatio |-> r, randomSeed |-> 0, uniformRand |-> NoRand] : r \in PkRatios}
    \cup {[pkRatio |-> DefaultPkRatio, randomSeed |-> DefaultRandomSeed,
           uniformRand |-> StubRand(v)] : v \in StubDraws}

\* ------------------------------------------------------- JavaScript helpers

\* String.prototype.split(separator) with a one-character separator: the
\* pieces between the separators, empty pieces included; "" gives [""].
RECURSIVE SplitFrom(_, _, _, _, _)
SplitFrom(s, sep, i, piece, acc) ==
    IF i > Len(s) THEN Append(acc, piece)
    ELSE IF s[i] = sep THEN SplitFrom(s, sep, i + 1, << >>, Append(acc, piece))
    ELSE SplitFrom(s, sep, i + 1, Append(piece, s[i]), acc)

\* Split, were the empty pieces filtered out.
SplitSkippingEmpty(s, sep) ==
    SelectSeq(SplitFrom(s, sep, 1, << >>, << >>), LAMBDA piece : piece # << >>)

Split(s, sep) == SplitFrom(s, sep, 1, << >>, << >>)

\* String.prototype.split(""): the array of the string's characters, [] for "".
SplitChars(s) == [k \in 1..Len(s) |-> s[k]]

\* Array.prototype.at(index): a negative index counts from the end, and an
\* index outside the array gives undefined.
At(a, index) ==
    LET k == IF index < 0 THEN Len(a) + index ELSE index
    IN  IF k < 0 \/ k >= Len(a) THEN Undefined ELSE a[k + 1]

DigitChar(d) ==
    CASE d = 0 -> "0" [] d = 1 -> "1" [] d = 2 -> "2" [] d = 3 -> "3"
      [] d = 4 -> "4" [] d = 5 -> "5" [] d = 6 -> "6" [] d = 7 -> "7"
      [] d = 8 -> "8" [] d = 9 -> "9"

\* The decimal digits of a natural number, as String(n) writes them.
RECURSIVE NatChars(_)
NatChars(n) ==
    IF n < 10 THEN <<DigitChar(n)>>
    ELSE Append(NatChars(n \div 10), DigitChar(n % 10))

\* Number.prototype.toFixed(2) of a value x >= 0: the integer n for which
\* n / 100 is nearest to x (the larger n on a tie), written with its last
\* two digits after the point.
ToFixed2(x) ==
    LET n == (x + 500) \div 1000
    IN  NatChars(n \div 100) \o <<".", DigitChar((n % 100) \div 10), DigitChar(n % 10)>>

\* Array.prototype.sort() with no comparator orders the elements by their
\* string forms; the string forms of 0 and 1 are "0" and "1".
SortsBefore(a, b) == a = 0 /\ b = 1

RECURSIVE InsertSorted(_, _)
InsertSorted(sorted, x) ==
    IF sorted = << >> THEN <<x>>
    ELSE IF SortsBefore(x, Head(sorted)) THEN <<x>> \o sorted
    ELSE <<Head(sorted)>> \o InsertSorted(Tail(sorted), x)

RECURSIVE SortFrom(_, _, _)
SortFrom(a, k, sorted) ==
    IF k > Len(a) THEN sorted ELSE SortFrom(a, k + 1, InsertSorted(sorted, a[k]))

\* Sort, were the array left in the order it has.
SortKeepingOrder(a) == a

Sort(a) == SortFrom(a, 1, << >>)

\* Array.prototype.join(""): the elements' string forms, concatenated.
Join(a) == [k \in 1..Len(a) |-> DigitChar(a[k])]

Max(a, b) == IF a >= b THEN a ELSE b

\* --------------------------------------------------- seeded random generator

\* Math.sin(n) * 10000 minus its floor, for the counter values n the model
\* reaches, cut to 5 decimals: 0.79540... is 79540.
SinFracFrom0 ==
    <<0, 70984, 97426, 20008, 97504, 75725, 84501, 86598,
      58246, 18485, 78889, 9793, 27081, 67036, 7355, 87840>>
SinFracFrom1000 ==
    <<79540, 90597, 66541, 58399, 5574, 75509, 7735, 61866,
      83375, 71840, 42829, 85950, 8191, 42327, 62057, 37882>>

SinFrac(n) ==
    IF n < DefaultRandomSeed THEN SinFracFrom0[n + 1]
    ELSE SinFracFrom1000[n - DefaultRandomSeed + 1]

\* One call of the closure seedRandom returns: the value for the counter,
\* and the counter incremented.
seedRandom(localSeed) ==
    [value |-> SinFrac(localSeed), localSeed |-> localSeed + 1]

\* One call of the closure randomGenerator returns: seeder() * 100.
randomGenerator(localSeed) ==
    LET drawn == seedRandom(localSeed)
    IN  [value |-> drawn.value * 100, localSeed |-> drawn.localSeed]

\* ----------------------------------------------------------------- Simulator

\* new Simulator({ pkRatio, randomSeed, uniformRand }): the instance's
\* fields, and localSeed, the counter of the generator it creates.
Simulator(pkRatio, randomSeed, uniformRand) ==
    [randomSeed  |-> randomSeed,
     pkRatio     |-> pkRatio,
     uniformRand |-> uniformRand,
     localSeed   |-> randomSeed]

\* this.uniformRand(): the injected function when one was given, else the
\* instance's seeded generator, whose counter advances.
UniformRand(sim) ==
    IF sim.uniformRand.given
    THEN [value |-> sim.uniformRand.value, sim |-> sim]
    ELSE LET drawn == randomGenerator(sim.localSeed)
         IN  [value |-> drawn.value,
              sim   |-> [sim EXCEPT !.localSeed = drawn.localSeed]]

TranslateDatagram(datagram) ==
    IF At(SplitChars(datagram), -1) = "1" THEN 1 ELSE 0

RECURSIVE CountOdds(_, _, _)
CountOdds(dataFrame, k, acc) ==
    IF k > Len(dataFrame) THEN acc
    ELSE CountOdds(dataFrame, k + 1, acc + (IF dataFrame[k] > 0 THEN 1 ELSE 0))

\* IFFDetectHostileEntity, were a tie hostile.
IFFDetectHostileEntityOnTie(dataFrame) ==
    LET odds  == CountOdds(dataFrame, 1, 0)
        evens == Len(dataFrame) - odds
    IN  odds - evens >= 0

IFFDetectHostileEntity(dataFrame) ==
    LET odds  == CountOdds(dataFrame, 1, 0)
        evens == Len(dataFrame) - odds
    IN  Max(0, odds - evens) > 0

\* CalculateMissileEngagementSuccess, were the comparison strict.
CalculateMissileEngagementSuccessStrict(successThreshold, calculatedPoK) ==
    calculatedPoK < successThreshold * 100

CalculateMissileEngagementSuccess(successThreshold, calculatedPoK) ==
    calculatedPoK <= successThreshold * 100

\* SimulateTimeStep, were missileFired left as the record starts with it.
SimulateTimeStepNotFiring(sim, timeStep) ==
    LET frame   == [k \in 1..Len(timeStep) |-> TranslateDatagram(timeStep[k])]
        sorted  == Sort(frame)
        hostile == IFFDetectHostileEntity(sorted)
        initial == [radarInput        |-> Join(sorted),
                    hostileDetected   |-> FALSE,
                    missileFired      |-> FALSE,
                    calculatedPok     |-> <<"0", ".", "0">>,
                    engagementSuccess |-> FALSE]
        detected == [initial EXCEPT !.hostileDetected = hostile]
    IN  IF detected.hostileDetected
        THEN LET drawn == UniformRand(sim)
                 pok   == drawn.value
             IN  [result |-> [detected EXCEPT
                                !.calculatedPok = ToFixed2(pok),
                                !.engagementSuccess =
                                    CalculateMissileEngagementSuccess(sim.pkRatio, pok)],
                  sim    |-> drawn.sim]
        ELSE [result |-> detected, sim |-> sim]

\* SimulateTimeStep, were the engagement computed for every time step.
SimulateTimeStepAlwaysEngaging(sim, timeStep) ==
    LET frame   == [k \in 1..Len(timeStep) |-> TranslateDatagram(timeStep[k])]
        sorted  == Sort(frame)
        hostile == IFFDetectHostileEntity(sorted)
        initial == [radarInput        |-> Join(sorted),
                    hostileDetected   |-> FALSE,
                    missileFired      |-> FALSE,
                    calculatedPok     |-> <<"0", ".", "0">>,
                    engagementSuccess |-> FALSE]
        detected == [initial EXCEPT !.hostileDetected = hostile,
                                    !.missileFired = hostile]
        drawn    == UniformRand(sim)
        pok      == drawn.value
    IN  [result |-> [detected EXCEPT
                       !.calculatedPok = ToFixed2(pok),
                       !.engagementSuccess =
                           CalculateMissileEngagementSuccess(sim.pkRatio, pok)],
         sim    |-> drawn.sim]

\* SimulateTimeStep(timeStep): the record returned and the instance after.
SimulateTimeStep(sim, timeStep) ==
    LET frame   == [k \in 1..Len(timeStep) |-> TranslateDatagram(timeStep[k])]
        sorted  == Sort(frame)
        hostile == IFFDetectHostileEntity(sorted)
        initial == [radarInput        |-> Join(sorted),
                    hostileDetected   |-> FALSE,
                    missileFired      |-> FALSE,
                    calculatedPok     |-> <<"0", ".", "0">>,
                    engagementSuccess |-> FALSE]
        detected == [initial EXCEPT !.hostileDetected = hostile,
                                    !.missileFired = hostile]
    IN  IF detected.hostileDetected
        THEN LET drawn == UniformRand(sim)
                 pok   == drawn.value
             IN  [result |-> [detected EXCEPT
                                !.calculatedPok = ToFixed2(pok),
                                !.engagementSuccess =
                                    CalculateMissileEngagementSuccess(sim.pkRatio, pok)],
                  sim    |-> drawn.sim]
        ELSE [result |-> detected, sim |-> sim]

\* MapSimulateTimeStep, were the time steps taken from the last to the first.
RECURSIVE MapSimulateTimeStepBackwards(_, _, _, _)
MapSimulateTimeStepBackwards(sim, timeSteps, k, results) ==
    IF k > Len(timeSteps) THEN [results |-> results, sim |-> sim]
    ELSE LET step == SimulateTimeStep(sim, timeSteps[Len(timeSteps) - k + 1])
         IN  MapSimulateTimeStepBackwards(step.sim, timeSteps, k + 1,
                                          <<step.result>> \o results)

\* timeSteps.map(this.SimulateTimeStep): the time steps in index order, each
\* on the instance as the one before left it.
RECURSIVE MapSimulateTimeStep(_, _, _, _)
MapSimulateTimeStep(sim, timeSteps, k, results) ==
    IF k > Len(timeSteps) THEN [results |-> results, sim |-> sim]
    ELSE LET step == SimulateTimeStep(sim, timeSteps[k])
         IN  MapSimulateTimeStep(step.sim, timeSteps, k + 1,
                                 Append(results, step.result))

\* Run, were the generator started again from the seed by each Run.
RunFromSeed(sim, radarData) ==
    LET dataLines == Split(radarData, "\n")
        timeSteps == [k \in 1..Len(dataLines) |-> Split(dataLines[k], ";")]
    IN  MapSimulateTimeStep([sim EXCEPT !.localSeed = sim.randomSeed],
                            timeSteps, 1, << >>)

\* Run(radarData): the records returned and the instance after.
Run(sim, radarData) ==
    LET dataLines == Split(radarData, "\n")
        timeSteps == [k \in 1..Len(dataLines) |-> Split(dataLines[k], ";")]
    IN  MapSimulateTimeStep(sim, timeSteps, 1, << >>)

\* RunSimulation({ data, randomSeed, pkRatio }): a new Simulator without an
\* injected generator, and its Run.
RunSimulation(data, randomSeed, pkRatio) ==
    Run(Simulator(pkRatio, randomSeed, NoRand), data)

\* ------------------------------------------------------------- state machine

\* sims[i]:  the fields of Simulator instance i and its generator's counter.
\* calls[i]: the last call made on instance i: the method, its argument,
\*           what it returned or threw, the generator's counter when it
\*           began, the number of calls made on the instance since it was
\*           constructed (n) and the number of hostile time steps the
\*           instance had processed when the call began (hostileBefore).
VARIABLES sims, calls

vars == <<sims, calls>>

NoCall ==
    [op |-> "new", radarData |-> << >>, timeStep |-> << >>, datagram |-> << >>,
     returned |-> << >>, parity |-> 0, thrown |-> "none",
     localSeedBefore |-> 0, n |-> 0, hostileBefore |-> 0]

Hostiles(records) == Cardinality({k \in 1..Len(records) : records[k].hostileDetected})

\* The call record of a call on instance i that returned normally.
Returned(i, op, fields) ==
    [fields EXCEPT !.op = op,
                   !.localSeedBefore = sims[i].localSeed,
                   !.n = calls[i].n + 1,
                   !.hostileBefore = calls[i].hostileBefore + Hostiles(calls[i].returned)]

\* NewSimulator, were the generator one for the program rather than one
\* created by each constructor: the counter stays where it was.
NewSimulatorSharingGenerator(i, pkRatio, randomSeed, uniformRand) ==
    /\ sims' = [sims EXCEPT ![i] =
                  [Simulator(pkRatio, randomSeed, uniformRand)
                     EXCEPT !.localSeed = sims[i].localSeed]]
    /\ calls' = [calls EXCEPT ![i] = [NoCall EXCEPT !.localSeedBefore = randomSeed]]

\* sim = new Simulator({ pkRatio, randomSeed, uniformRand })
NewSimulator(i, pkRatio, randomSeed, uniformRand) ==
    /\ sims' = [sims EXCEPT ![i] = Simulator(pkRatio, randomSeed, uniformRand)]
    /\ calls' = [calls EXCEPT ![i] = [NoCall EXCEPT !.localSeedBefore = randomSeed]]

\* sim.TranslateDatagram(datagram)
CallTranslateDatagram(i, datagram) ==
    /\ calls[i].n < MaxCalls
    /\ calls' = [calls EXCEPT ![i] =
                    Returned(i, "TranslateDatagram",
                             [NoCall EXCEPT !.datagram = datagram,
                                            !.parity = TranslateDatagram(datagram)])]
    /\ UNCHANGED sims

\* sim.SimulateTimeStep(timeStep)
CallSimulateTimeStep(i, timeStep) ==
    /\ calls[i].n < MaxCalls
    /\ LET step == SimulateTimeStep(sims[i], timeStep)
       IN  /\ sims' = [sims EXCEPT ![i] = step.sim]
           /\ calls' = [calls EXCEPT ![i] =
                           Returned(i, "SimulateTimeStep",
                                    [NoCall EXCEPT !.timeStep = timeStep,
                                                   !.returned = <<step.result>>])]

\* sim.Run(radarData)
CallRun(i, radarData) ==
    /\ calls[i].n < MaxCalls
    /\ LET run == Run(sims[i], radarData)
       IN  /\ sims' = [sims EXCEPT ![i] = run.sim]
           /\ calls' = [calls EXCEPT ![i] =
                           Returned(i, "Run",
                                    [NoCall EXCEPT !.radarData = radarData,
                                                   !.returned = run.results])]

\* RunSimulation({ data, randomSeed, pkRatio }): instance i becomes the
\* Simulator the function constructs and runs.
CallRunSimulation(i, data, randomSeed, pkRatio) ==
    LET run == RunSimulation(data, randomSeed, pkRatio)
    IN  /\ sims' = [sims EXCEPT ![i] = run.sim]
        /\ calls' = [calls EXCEPT ![i] =
                        [NoCall EXCEPT !.op = "RunSimulation",
                                       !.radarData = data,
                                       !.returned = run.results,
                                       !.localSeedBefore = randomSeed,
                                       !.n = 1]]

\* One program holding a Simulator (instance 1) and calling its methods;
\* instance 2 is a default Simulator nobody calls.
Init ==
    /\ \E o \in Options :
          sims = [i \in Instances |->
                    IF i = 1 THEN Simulator(o.pkRatio, o.randomSeed, o.uniformRand)
                    ELSE Simulator(DefaultPkRatio, DefaultRandomSeed, NoRand)]
    /\ calls = [i \in Instances |-> [NoCall EXCEPT !.localSeedBefore = sims[i].randomSeed]]

Next ==
    \/ \E o \in Options : NewSimulator(1, o.pkRatio, o.randomSeed, o.uniformRand)
    \/ \E datagram \in Datagrams : CallTranslateDatagram(1, datagram)
    \/ \E timeStep \in TimeSteps : CallSimulateTimeStep(1, timeStep)
    \/ \E radarData \in Texts : CallRun(1, radarData)

Spec == Init /\ [][Next]_vars

\* A determinism harness: two Simulators with seeds of the harness's choice
\* and the default ratio, each run on the text the other was run on.
Other(i) == IF i = 1 THEN 2 ELSE 1

SameData(i, radarData) ==
    calls[Other(i)].n > 0 => radarData = calls[Other(i)].radarData

InitPair ==
    /\ \E seeds \in [Instances -> Seeds] :
          sims = [i \in Instances |-> Simulator(DefaultPkRatio, seeds[i], NoRand)]
    /\ calls = [i \in Instances |-> [NoCall EXCEPT !.localSeedBefore = sims[i].randomSeed]]

NextPair ==
    \E i \in Instances :
        \/ \E randomSeed \in Seeds : NewSimulator(i, DefaultPkRatio, randomSeed, NoRand)
        \/ \E radarData \in PairTexts :
              SameData(i, radarData) /\ CallRun(i, radarData)
        \/ \E data \in PairTexts, randomSeed \in Seeds :
              SameData(i, data) /\ CallRunSimulation(i, data, randomSeed, DefaultPkRatio)

SpecPair == InitPair /\ [][NextPair]_vars

\* ---------------------------------------------------- what the claims speak of

\* The calls that simulate time steps.
StepOps == {"SimulateTimeStep", "Run", "RunSimulation"}

Seeded(i) == ~sims[i].uniformRand.given

\* The pieces of s between the occurrences of sep, by position: piece k lies
\* between the (k-1)-th and the k-th occurrence.
SepPos(s, sep) == {p \in 1..Len(s) : s[p] = sep}
NPieces(s, sep) == Cardinality(SepPos(s, sep)) + 1
KthSep(s, sep, k) ==
    IF k = 0 THEN 0
    ELSE IF k = NPieces(s, sep) THEN Len(s) + 1
    ELSE CHOOSE p \in SepPos(s, sep) :
            Cardinality({q \in SepPos(s, sep) : q <= p}) = k
Piece(s, sep, k) == SubSeq(s, KthSep(s, sep, k - 1) + 1, KthSep(s, sep, k) - 1)

\* The datagrams of line k of a text.
LineDatagrams(text, k) ==
    LET line == Piece(text, "\n", k)
    IN  [j \in 1..NPieces(line, ";") |-> Piece(line, ";", j)]

\* The time steps a call was given: its argument, or the lines of its text.
StepsOf(c) ==
    IF c.op = "SimulateTimeStep" THEN <<c.timeStep>>
    ELSE [k \in 1..NPieces(c.radarData, "\n") |-> LineDatagrams(c.radarData, k)]

EndsInOne(datagram) == Len(datagram) > 0 /\ datagram[Len(datagram)] = "1"
Ones(timeStep) == Cardinality({j \in 1..Len(timeStep) : EndsInOne(timeStep[j])})
HasEmptyDatagram(timeStep) == \E j \in 1..Len(timeStep) : timeStep[j] = << >>

\* The hostile records among the first k - 1 records of a call.
HostilesBefore(records, k) ==
    Cardinality({j \in 1..(k - 1) : records[j].hostileDetected})

\* The value drawn for record k of the last call on instance i.
DrawnFor(i, k) ==
    IF Seeded(i)
    THEN 100 * SinFrac(calls[i].localSeedBefore + HostilesBefore(calls[i].returned, k))
    ELSE sims[i].uniformRand.value

\* A decimal string read back: the digits before the point as a number, and
\* the digits after it.
DigitValue(ch) == CHOOSE d \in 0..9 : DigitChar(d) = ch
RECURSIVE ReadNat(_)
ReadNat(chars) ==
    IF chars = << >> THEN 0
    ELSE 10 * ReadNat(SubSeq(chars, 1, Len(chars) - 1)) + DigitValue(chars[Len(chars)])
PointAt(chars) == CHOOSE p \in 1..Len(chars) : chars[p] = "."
FractionDigits(chars) == Len(chars) - PointAt(chars)
\* The string's value in hundredths, for a string with 2 fraction digits.
Hundredths(chars) ==
    100 * ReadNat(SubSeq(chars, 1, PointAt(chars) - 1))
      + ReadNat(SubSeq(chars, PointAt(chars) + 1, Len(chars)))

\* -------------------------------------------------------------------- claims

\* C1: a datagram with no characters is rejected: a call that meets one
\* (TranslateDatagram of "", or SimulateTimeStep or Run on a time step
\* holding "") throws InvalidInput and returns no record.
C1_EmptyDatagramRejected ==
    \A i \in Instances :
        LET c == calls[i]
        IN  (\/ c.op = "TranslateDatagram" /\ c.datagram = << >>
             \/ /\ c.op \in StepOps
                /\ \E k \in 1..Len(StepsOf(c)) : HasEmptyDatagram(StepsOf(c)[k]))
            => c.thrown = "InvalidInput" /\ c.returned = << >>

\* C2: hostileDetected is true exactly when the datagrams ending in '1'
\* strictly outnumber the other datagrams of the time step.
C2_StrictMajority ==
    \A i \in Instances :
        LET c == calls[i]
            steps == StepsOf(c)
        IN  c.op \in StepOps =>
              \A k \in (1..Len(c.returned)) \cap (1..Len(steps)) :
                  c.returned[k].hostileDetected
                    = (Ones(steps[k]) > Len(steps[k]) - Ones(steps[k]))

\* A time step of two datagrams, one ending in '1', was found not hostile.
C2_Witness ==
    \E i \in Instances :
        /\ calls[i].op \in StepOps
        /\ \E k \in 1..Len(calls[i].returned) :
              /\ Len(StepsOf(calls[i])[k]) = 2
              /\ Ones(StepsOf(calls[i])[k]) = 1
              /\ ~calls[i].returned[k].hostileDetected

\* C3: in every record returned, missileFired equals hostileDetected.
C3_MissileFiredIsHostileDetected ==
    \A i \in Instances :
        \A k \in 1..Len(calls[i].returned) :
            calls[i].returned[k].missileFired = calls[i].returned[k].hostileDetected

\* A hostile record was returned, with the missile fired.
C3_Witness ==
    \E i \in Instances :
        \E k \in 1..Len(calls[i].returned) :
            calls[i].returned[k].hostileDetected /\ calls[i].returned[k].missileFired

\* C4: a record that is not hostile has calculatedPok "0.0" and
\* engagementSuccess false.
C4_NoEngagementWhenNotHostile ==
    \A i \in Instances :
        \A k \in 1..Len(calls[i].returned) :
            ~calls[i].returned[k].hostileDetected =>
                /\ calls[i].returned[k].calculatedPok = <<"0", ".", "0">>
                /\ ~calls[i].returned[k].engagementSuccess

\* A record that is not hostile follows, in one Run, a hostile record whose
\* engagement succeeded.
C4_Witness ==
    \E i \in Instances :
        /\ calls[i].op = "Run"
        /\ \E k \in 2..Len(calls[i].returned) :
              /\ calls[i].returned[k - 1].engagementSuccess
              /\ ~calls[i].returned[k].hostileDetected

\* C5: two instances constructed with the same seed and the default ratio,
\* each run once on the same text, returned the same records.
FirstRun(i) == calls[i].op \in {"Run", "RunSimulation"} /\ calls[i].n = 1

C5_SameSeedSameRecords ==
    \A i, j \in Instances :
        (/\ FirstRun(i) /\ FirstRun(j)
         /\ Seeded(i) /\ Seeded(j)
         /\ sims[i].randomSeed = sims[j].randomSeed
         /\ sims[i].pkRatio = DefaultPkRatio /\ sims[j].pkRatio = DefaultPkRatio
         /\ calls[i].radarData = calls[j].radarData)
        => calls[i].returned = calls[j].returned

\* Both instances, of one seed, have run a text with a hostile line.
C5_Witness ==
    /\ FirstRun(1) /\ FirstRun(2)
    /\ sims[1].randomSeed = sims[2].randomSeed
    /\ calls[1].radarData = calls[2].radarData
    /\ Hostiles(calls[1].returned) > 0
    /\ Hostiles(calls[2].returned) > 0

\* C6: a hostile record's engagementSuccess is true exactly when the value
\* drawn for it is at most killRatio * 100, and its calculatedPok is that
\* value with 2 fraction digits: the nearest hundredth, the upper on a tie.
C6_EngagementDecidedByDraw ==
    \A i \in Instances :
        calls[i].op \in StepOps =>
          \A k \in 1..Len(calls[i].returned) :
              LET r == calls[i].returned[k]
                  d == DrawnFor(i, k)
              IN  r.hostileDetected =>
                    /\ r.engagementSuccess = (d <= sims[i].pkRatio * 100)
                    /\ FractionDigits(r.calculatedPok) = 2
                    /\ Hundredths(r.calculatedPok) * 1000 - 500 <= d
                    /\ d < Hundredths(r.calculatedPok) * 1000 + 500

\* A draw equal to killRatio * 100 was a success.
C6_Witness ==
    \E i \in Instances :
        /\ calls[i].op \in StepOps
        /\ \E k \in 1..Len(calls[i].returned) :
              /\ calls[i].returned[k].hostileDetected
              /\ DrawnFor(i, k) = sims[i].pkRatio * 100
              /\ calls[i].returned[k].engagementSuccess

\* C7: Run returns one record per line of its text, and record k is what
\* SimulateTimeStep returns for the datagrams of line k, on the instance as
\* the lines before left it.
C7_OneRecordPerLine ==
    \A i \in Instances :
        LET c == calls[i]
        IN  c.op \in {"Run", "RunSimulation"} =>
              /\ Len(c.returned) = NPieces(c.radarData, "\n")
              /\ \A k \in 1..Len(c.returned) :
                    c.returned[k] =
                      SimulateTimeStep(
                          [sims[i] EXCEPT !.localSeed =
                              c.localSeedBefore + HostilesBefore(c.returned, k)],
                          LineDatagrams(c.radarData, k)).result

\* A Run of a text of three lines, one of them hostile.
C7_Witness ==
    \E i \in Instances :
        /\ calls[i].op = "Run"
        /\ Len(calls[i].returned) = 3
        /\ Hostiles(calls[i].returned) > 0

\* C8: radarInput holds one digit per datagram, every '0' before every '1',
\* and as many '1' as there are datagrams ending in '1'.
C8_RadarInputSorted ==
    \A i \in Instances :
        LET c == calls[i]
            steps == StepsOf(c)
        IN  c.op \in StepOps =>
              \A k \in (1..Len(c.returned)) \cap (1..Len(steps)) :
                  LET ri == c.returned[k].radarInput
                  IN  /\ Len(ri) = Len(steps[k])
                      /\ \A a \in 1..Len(ri) : ri[a] \in {"0", "1"}
                      /\ \A a, b \in 1..Len(ri) : a < b => ~(ri[a] = "1" /\ ri[b] = "0")
                      /\ Cardinality({a \in 1..Len(ri) : ri[a] = "1"}) = Ones(steps[k])

\* A time step whose first datagram ends in '1' and whose second does not
\* gave radarInput "01".
C8_Witness ==
    \E i \in Instances :
        /\ calls[i].op \in StepOps
        /\ \E k \in 1..Len(calls[i].returned) :
              LET step == StepsOf(calls[i])[k]
              IN  /\ Len(step) = 2
                  /\ EndsInOne(step[1])
                  /\ ~EndsInOne(step[2])
                  /\ calls[i].returned[k].radarInput = <<"0", "1">>

\* C9: with the seeded generator, a call advances the counter by the number
\* of hostile records it returns, each hostile record holds the value for
\* the counter as the records before it left it, and in the first call after
\* construction the k-th hostile record holds the value for seed + k - 1.
C9_DrawsFollowInputOrder ==
    \A i \in Instances :
        LET c == calls[i]
        IN  (c.op \in StepOps /\ Seeded(i)) =>
              /\ sims[i].localSeed = c.localSeedBefore + Hostiles(c.returned)
              /\ \A k \in 1..Len(c.returned) :
                    c.returned[k].hostileDetected =>
                        c.returned[k].calculatedPok =
                          ToFixed2(100 * SinFrac(c.localSeedBefore
                                                   + HostilesBefore(c.returned, k)))
              /\ c.n = 1 =>
                    /\ sims[i].localSeed = sims[i].randomSeed + Hostiles(c.returned)
                    /\ \A k \in 1..Len(c.returned) :
                          c.returned[k].hostileDetected =>
                              c.returned[k].calculatedPok =
                                ToFixed2(100 * SinFrac(sims[i].randomSeed
                                                         + HostilesBefore(c.returned, k)))

\* A first Run returned two hostile records.
C9_Witness ==
    \E i \in Instances :
        /\ Seeded(i)
        /\ calls[i].op = "Run"
        /\ calls[i].n = 1
        /\ Hostiles(calls[i].returned) = 2

\* C10: a call on an instance that has processed h hostile time steps gives
\* its first hostile record the value for seed + h, leaves the counter at
\* seed + the hostile time steps processed, and no call changes the
\* instance's seed, kill ratio or injected function or lowers the counter.
FirstHostile(records) ==
    CHOOSE k \in 1..Len(records) :
        records[k].hostileDetected /\ HostilesBefore(records, k) = 0

GeneratorContinues ==
    \A i \in Instances :
        LET c == calls[i]
        IN  (c.op \in StepOps /\ Seeded(i)) =>
              /\ sims[i].localSeed
                   = sims[i].randomSeed + c.hostileBefore + Hostiles(c.returned)
              /\ Hostiles(c.returned) > 0 =>
                    c.returned[FirstHostile(c.returned)].calculatedPok
                      = ToFixed2(100 * SinFrac(sims[i].randomSeed + c.hostileBefore))

CallsKeepConfiguration ==
    \A i \in Instances :
        (calls'[i] # calls[i] /\ calls'[i].op \in {"TranslateDatagram", "SimulateTimeStep", "Run"})
        => /\ sims'[i].randomSeed = sims[i].randomSeed
           /\ sims'[i].pkRatio = sims[i].pkRatio
           /\ sims'[i].uniformRand = sims[i].uniformRand
           /\ sims'[i].localSeed >= sims[i].localSeed

C10_GeneratorRestartsOnlyByConstruction ==
    []GeneratorContinues /\ [][CallsKeepConfiguration]_vars

\* A second call on an instance that had processed a hostile time step
\* returned a hostile record.
C10_Witness ==
    \E i \in Instances :
        /\ Seeded(i)
        /\ calls[i].op = "Run"
        /\ calls[i].n = 2
        /\ calls[i].hostileBefore > 0
        /\ Hostiles(calls[i].returned) > 0

====
